---- MODULE Spec2Model ----
(***************************************************************************)
(* vtracer-gui: the conversion-task lifecycle of src/vtracer-gui.py.       *)
(*                                                                         *)
(* The UI thread (VTracerGUI, ParameterControlWidget, ImageDropWidget) and *)
(* the ConversionWorker threads are modelled as one state machine.  A      *)
(* worker's signals reach the UI through queued connections: each emit     *)
(* appends to event_queue, and the UI thread's event loop takes the events *)
(* in order.  A modal dialog (QMessageBox, QFileDialog) runs a nested      *)
(* event loop: user input to the window is blocked while it is open, but   *)
(* queued worker signals are still delivered, so handlers nest; `modal` is *)
(* the stack of open dialogs, each standing for the handler that waits for *)
(* it.                                                                     *)
(*                                                                         *)
(* Text is a sequence of one-character strings, so that suffixes, stems    *)
(* and case folding are computed.  An Optional value is <<>> (None) or     *)
(* <<x>> (the value x).                                                    *)
(***************************************************************************)
EXTENDS Integers, Sequences, FiniteSets, TLC

VARIABLES
    current_image_path,   \* VTracerGUI.current_image_path
    current_svg_content,  \* VTracerGUI.current_svg_content
    conversion_worker,    \* VTracerGUI.conversion_worker: index into workers, or None
    convert_button,       \* convert_button.isEnabled()
    save_button,          \* save_button.isEnabled()
    progress_bar,         \* [visible, value]
    image_widget,         \* [pixmap, toolTip]
    svg_widget,           \* the bytes loaded into the preview, or None
    param_controls,       \* the ParameterControlWidget's combo boxes, sliders, labels
    workers,              \* every ConversionWorker created so far, in creation order
    event_queue,          \* signals emitted by workers and not yet delivered to the UI
    modal,                \* stack of open modal dialogs (last = topmost)
    files,                \* the file system at the save target: path -> content written
    save_log              \* what save_svg calls did: [returned_early, dialogs, writes]

vars == <<current_image_path, current_svg_content, conversion_worker,
          convert_button, save_button, progress_bar, image_widget, svg_widget,
          param_controls, workers, event_queue, modal, files, save_log>>

window_vars == <<current_image_path, current_svg_content, conversion_worker,
                 convert_button, save_button, progress_bar, image_widget,
                 svg_widget>>

None == <<>>

Some(x) == <<x>>

\* Python truthiness of an Optional[str] holding a path: neither None nor empty
truthy_path(opt) == opt # None /\ opt[1] # <<>>

\* Python truthiness of an Optional[str] holding SVG text: neither None nor empty
truthy_text(opt) == opt # None /\ opt[1] # <<>>

(***************************************************************************)
(* Bounds of the exploration.                                              *)
(***************************************************************************)
\* conversions started in one behaviour
MaxConversions == 2
\* parameter controls that may differ from their defaults at once (panel spec)
MaxChangedControls == 1
\* save_svg calls recorded in save_log
MaxSaves == 1
\* longest directory-and-stem prefix of a generated path
MaxStemLen == 2

(***************************************************************************)
(* Text helpers: str.lower, pathlib's name / suffix / stem.                *)
(***************************************************************************)
UpperLetters == <<"A","B","C","D","E","F","G","H","I","J","K","L","M",
                  "N","O","P","Q","R","S","T","U","V","W","X","Y","Z">>
LowerLetters == <<"a","b","c","d","e","f","g","h","i","j","k","l","m",
                  "n","o","p","q","r","s","t","u","v","w","x","y","z">>

lower_char(c) ==
    IF \E i \in DOMAIN UpperLetters : UpperLetters[i] = c
    THEN LowerLetters[CHOOSE i \in DOMAIN UpperLetters : UpperLetters[i] = c]
    ELSE c

\* str.lower()
str_lower(s) == [i \in 1..Len(s) |-> lower_char(s[i])]

\* the components of a path, as <<first, last>> index pairs: the maximal runs
\* without "/", the "." components dropped
path_parts(p) ==
    {r \in (1..Len(p)) \X (1..Len(p)) :
        /\ r[1] <= r[2]
        /\ \A k \in r[1]..r[2] : p[k] # "/"
        /\ r[1] = 1 \/ p[r[1] - 1] = "/"
        /\ r[2] = Len(p) \/ p[r[2] + 1] = "/"
        /\ SubSeq(p, r[1], r[2]) # <<".">>}

\* PurePath.name: the last component, "" when there is none
PurePath_name(p) ==
    LET parts == path_parts(p)
    IN  IF parts = {} THEN <<>>
        ELSE LET r == CHOOSE r \in parts : \A q \in parts : q[1] <= r[1]
             IN  SubSeq(p, r[1], r[2])

\* str.rfind("."), 1-based; 0 when absent
rfind_dot(name) ==
    IF \E i \in 1..Len(name) : name[i] = "."
    THEN CHOOSE i \in 1..Len(name) :
            /\ name[i] = "."
            /\ \A j \in (i+1)..Len(name) : name[j] # "."
    ELSE 0

\* PurePath.suffix: name[i:] when the last dot is neither first nor last
PurePath_suffix(p) ==
    LET name == PurePath_name(p)
        i    == rfind_dot(name)
    IN  IF 1 < i /\ i < Len(name) THEN SubSeq(name, i, Len(name)) ELSE <<>>

\* PurePath.stem
PurePath_stem(p) ==
    LET name == PurePath_name(p)
        i    == rfind_dot(name)
    IN  IF 1 < i /\ i < Len(name) THEN SubSeq(name, 1, i - 1) ELSE name

(***************************************************************************)
(* The paths of the model, and Path(p) for each of them.                   *)
(***************************************************************************)
\* files the user drops on the window or picks in the open dialog
DropFiles == {<<"d", "/", "b", ".", "J", "P", "G">>,
              <<"c", ".", "t", "x", "t">>}

\* the dropped files QPixmap can decode
Decodable == {<<"d", "/", "b", ".", "J", "P", "G">>}

\* the file the user names in the save dialog
SaveFiles == {<<"o", ".", "s", "v", "g">>}

\* paths a ConversionWorker may be constructed with: a directory-and-stem prefix
\* followed by an ending
StemChars == {"a", ".", "/"}

Stems == UNION {[1..n -> StemChars] : n \in 0..MaxStemLen}

Endings ==
    {<<>>, <<".">>, <<"p", "n", "g">>,
     <<".", "j", "p", "g">>, <<".", "J", "P", "G">>, <<".", "j", "p", "e", "g">>,
     <<".", "J", "p", "e", "G">>, <<".", "p", "n", "g">>, <<".", "P", "N", "G">>,
     <<".", "b", "m", "p">>, <<".", "B", "m", "p">>, <<".", "g", "i", "f">>,
     <<".", "G", "I", "F">>, <<".", "t", "i", "f", "f">>, <<".", "T", "I", "F", "F">>,
     <<".", "t", "i", "f">>, <<".", "T", "I", "F">>, <<".", "s", "v", "g">>,
     <<".", "j", "p", "g", "/">>, <<".", "p", "n", "g", ".", "b", "a", "k">>}

WorkerPaths == {s \o e : s \in Stems, e \in Endings}

Paths == DropFiles \cup WorkerPaths \cup {<<>>}

\* Path(p) for every path of the model
Path == [p \in Paths |->
            [name   |-> PurePath_name(p),
             suffix |-> PurePath_suffix(p),
             stem   |-> PurePath_stem(p)]]

(***************************************************************************)
(* ConversionWorker.run: format detection.                                 *)
(***************************************************************************)
ext_jpg  == <<".", "j", "p", "g">>
ext_jpeg == <<".", "j", "p", "e", "g">>
ext_png  == <<".", "p", "n", "g">>
ext_bmp  == <<".", "b", "m", "p">>
ext_gif  == <<".", "g", "i", "f">>
ext_tiff == <<".", "t", "i", "f", "f">>

\* a mapping in which ".tiff" is given the tag of its three-letter spelling
img_format_map_tif ==
    (ext_jpg :> "jpg") @@ (ext_jpeg :> "jpg") @@ (ext_png :> "png") @@
    (ext_bmp :> "bmp") @@ (ext_gif :> "gif") @@ (ext_tiff :> "tif")

img_format_map ==
    (ext_jpg :> "jpg") @@ (ext_jpeg :> "jpg") @@ (ext_png :> "png") @@
    (ext_bmp :> "bmp") @@ (ext_gif :> "gif") @@ (ext_tiff :> "tiff")

\* dict.get(key, default)
dict_get(d, key, default) == IF key \in DOMAIN d THEN d[key] ELSE default

\* lines 62-71: file_extension, img_format
detect_format(image_path) ==
    LET file_extension == str_lower(Path[image_path].suffix)
    IN  dict_get(img_format_map, file_extension, "jpg")

\* ImageDropWidget.is_image_file
is_image_file(file_path) ==
    str_lower(Path[file_path].suffix) \in
        {ext_png, ext_jpg, ext_jpeg, ext_bmp, ext_gif, ext_tiff}

(***************************************************************************)
(* ParameterControlWidget: the controls built by init_ui.                  *)
(***************************************************************************)
ComboNames == {"color_mode", "hierarchical_mode", "curve_mode"}

SliderNames == {"filter_speckle", "color_precision", "layer_difference",
                "corner_threshold", "length_threshold", "splice_threshold"}

\* addItems(...)
combo_items ==
    [color_mode        |-> {"Color", "B/W"},
     hierarchical_mode |-> {"Stacked", "CutOut"},
     curve_mode        |-> {"Spline", "Polygon", "Pixel"}]

\* setCurrentText(...)
combo_default ==
    [color_mode |-> "Color", hierarchical_mode |-> "Stacked", curve_mode |-> "Spline"]

\* setRange(lo, hi), as <<lo, hi>>
slider_range ==
    [filter_speckle   |-> <<0, 128>>,
     color_precision  |-> <<1, 8>>,
     layer_difference |-> <<0, 128>>,
     corner_threshold |-> <<0, 180>>,
     length_threshold |-> <<35, 100>>,
     splice_threshold |-> <<0, 180>>]

\* setValue(...) in init_ui
slider_default ==
    [filter_speckle   |-> 4,
     color_precision  |-> 6,
     layer_difference |-> 16,
     corner_threshold |-> 60,
     length_threshold |-> 40,
     splice_threshold |-> 45]

\* the text a slider's valueChanged lambda gives its label:
\* str(v), and f"{v/10:.1f}" for length_threshold
label_text(name, v) ==
    IF name = "length_threshold"
    THEN ToString(v \div 10) \o "." \o ToString(v % 10)
    ELSE ToString(v)

\* QAbstractSlider.setValue keeps the value inside the range set by setRange
slider_bound(name, v) ==
    LET lo == slider_range[name][1]
        hi == slider_range[name][2]
    IN  IF v < lo THEN lo ELSE IF v > hi THEN hi ELSE v

\* the panel as __init__ leaves it
panel_init ==
    [combo  |-> combo_default,
     slider |-> slider_default,
     label  |-> [n \in SliderNames |-> label_text(n, slider_default[n])]]

\* a float produced by dividing an int by 10.0, kept exact as num/den
div10(v) == [num |-> v, den |-> 10]

\* a snapshot whose segment length is the raw slider position
get_parameters_raw(pc) ==
    [colormode        |-> IF pc.combo.color_mode = "Color" THEN "color" ELSE "binary",
     hierarchical     |-> IF pc.combo.hierarchical_mode = "Stacked"
                          THEN "stacked" ELSE "cutout",
     mode             |-> [Spline |-> "spline", Polygon |-> "polygon",
                           Pixel |-> "none"][pc.combo.curve_mode],
     filter_speckle   |-> pc.slider.filter_speckle,
     color_precision  |-> pc.slider.color_precision,
     layer_difference |-> pc.slider.layer_difference,
     corner_threshold |-> pc.slider.corner_threshold,
     length_threshold |-> [num |-> pc.slider.length_threshold, den |-> 1],
     max_iterations   |-> 10,
     splice_threshold |-> pc.slider.splice_threshold]

\* ParameterControlWidget.get_parameters
get_parameters(pc) ==
    [colormode        |-> IF pc.combo.color_mode = "Color" THEN "color" ELSE "binary",
     hierarchical     |-> IF pc.combo.hierarchical_mode = "Stacked"
                          THEN "stacked" ELSE "cutout",
     mode             |-> [Spline |-> "spline", Polygon |-> "polygon",
                           Pixel |-> "none"][pc.combo.curve_mode],
     filter_speckle   |-> pc.slider.filter_speckle,
     color_precision  |-> pc.slider.color_precision,
     layer_difference |-> pc.slider.layer_difference,
     corner_threshold |-> pc.slider.corner_threshold,
     length_threshold |-> div10(pc.slider.length_threshold),
     max_iterations   |-> 10,
     splice_threshold |-> pc.slider.splice_threshold]

\* the controls whose value is not the one init_ui set
changed_controls(pc) ==
    {n \in ComboNames : pc.combo[n] # combo_default[n]} \cup
    {n \in SliderNames : pc.slider[n] # slider_default[n]}

(***************************************************************************)
(* Inputs.                                                                 *)
(***************************************************************************)
\* vtracer.convert_raw_image_to_svg when it does not raise: the library is a
\* function of its arguments, and its text is never empty
convert_raw_image_to_svg(image_bytes, img_format, params) ==
    <<"<svg>", image_bytes, img_format, params>>

(***************************************************************************)
(* State after VTracerGUI.__init__ and init_ui.                            *)
(***************************************************************************)
Init ==
    /\ current_image_path = None
    /\ current_svg_content = None
    /\ conversion_worker = None
    /\ convert_button = FALSE
    /\ save_button = FALSE
    /\ progress_bar = [visible |-> FALSE, value |-> -1]
    /\ image_widget = [pixmap |-> None, toolTip |-> None]
    /\ svg_widget = None
    /\ param_controls = panel_init
    /\ workers = <<>>
    /\ event_queue = <<>>
    /\ modal = <<>>
    /\ files = [f \in SaveFiles |-> None]
    /\ save_log = [returned_early |-> 0, dialogs |-> 0, writes |-> 0]

\* a modal dialog and the handler waiting for it
Dialog(kind, w, arg) == [kind |-> kind, worker |-> w, arg |-> arg]

\* no modal dialog is open: the window takes user input
UserIdle == modal = <<>>

TopDialog == modal[Len(modal)]

PopDialog == SubSeq(modal, 1, Len(modal) - 1)

(***************************************************************************)
(* Parameter controls (user input on the panel).                           *)
(***************************************************************************)
\* a slider is moved to v (drag, key or wheel): setValue, then the label's lambda;
\* parametersChanged reaches on_parameters_changed, which does nothing
slider_valueChanged(name, v) ==
    /\ UserIdle
    /\ param_controls' =
          [param_controls EXCEPT
              !.slider[name] = slider_bound(name, v),
              !.label[name]  = label_text(name, slider_bound(name, v))]
    /\ UNCHANGED <<window_vars, workers, event_queue, modal, files, save_log>>

\* a combo box item is chosen
combo_currentTextChanged(name, text) ==
    /\ UserIdle
    /\ text \in combo_items[name]
    /\ param_controls' = [param_controls EXCEPT !.combo[name] = text]
    /\ UNCHANGED <<window_vars, workers, event_queue, modal, files, save_log>>

(***************************************************************************)
(* VTracerGUI.load_image and the two ways an image reaches it.             *)
(***************************************************************************)
\* load_image(file_path); set_image keeps the old pixmap when QPixmap(file_path)
\* is null
load_image(file_path) ==
    /\ current_image_path' = Some(file_path)
    /\ image_widget' =
          [pixmap  |-> IF file_path \in Decodable THEN Some(<<"scaled", file_path>>)
                       ELSE image_widget.pixmap,
           toolTip |-> Some(<<"Selected image: ", Path[file_path].name>>)]
    /\ convert_button' = TRUE

\* ImageDropWidget.dropEvent -> imageDropped -> load_image
dropEvent(urls) ==
    /\ UserIdle
    /\ IF urls # <<>> /\ is_image_file(urls[1])
       THEN /\ load_image(urls[1])
            /\ UNCHANGED <<current_svg_content, conversion_worker, save_button,
                           progress_bar, svg_widget>>
       ELSE UNCHANGED window_vars
    /\ UNCHANGED <<param_controls, workers, event_queue, modal, files, save_log>>

\* ImageDropWidget.mousePressEvent -> select_file: the open dialog appears
select_file ==
    /\ UserIdle
    /\ modal' = Append(modal, Dialog("open_file", 0, <<>>))
    /\ UNCHANGED <<window_vars, param_controls, workers, event_queue, files, save_log>>

\* getOpenFileName returns file_path ("" when cancelled)
select_file_return(file_path) ==
    /\ modal # <<>>
    /\ TopDialog.kind = "open_file"
    /\ modal' = PopDialog
    /\ IF file_path # <<>> /\ is_image_file(file_path)
       THEN /\ load_image(file_path)
            /\ UNCHANGED <<current_svg_content, conversion_worker, save_button,
                           progress_bar, svg_widget>>
       ELSE UNCHANGED window_vars
    /\ UNCHANGED <<param_controls, workers, event_queue, files, save_log>>

(***************************************************************************)
(* VTracerGUI.convert_image and ConversionWorker.                          *)
(***************************************************************************)
\* ConversionWorker.__init__ followed by start(): the thread is at the top of run.
\* signals, lib_call, ui and terminal record what the worker emitted, what it
\* passed to the library, how far the UI is with its terminal signal ("none",
\* "handling", "handled") and which one that was; before is the window's result
\* state when the worker was created.
ConversionWorker(image_path, params) ==
    [image_path  |-> Some(image_path),
     params      |-> Some(params),
     pc          |-> "progress10",
     image_bytes |-> None,
     img_format  |-> None,
     lib_call    |-> None,
     svg_content |-> None,
     exc         |-> None,
     signals     |-> <<>>,
     ui          |-> "none",
     terminal    |-> "none",
     before      |-> Some([current_svg_content |-> current_svg_content,
                           save_button |-> save_button])]

\* a worker object no reference is left to: its attributes are gone; what is
\* kept is which terminal signal of it the UI handled
Collected(terminal) ==
    [image_path |-> None, params |-> None, pc |-> "collected", image_bytes |-> None,
     img_format |-> None, lib_call |-> None, svg_content |-> None, exc |-> None,
     signals |-> <<>>, ui |-> "handled", terminal |-> terminal, before |-> None]

\* the workers after self.conversion_worker is rebound: the object it referred to
\* is released if its thread has ended and its terminal signal has been handled
release_replaced(ws) ==
    [w \in DOMAIN ws |->
        IF conversion_worker = Some(w) /\ ws[w].ui = "handled"
        THEN Collected(ws[w].terminal) ELSE ws[w]]

\* worker w once its terminal signal has been handled: the object is released
\* unless self.conversion_worker still refers to it
handled_worker(w) ==
    IF conversion_worker = Some(w) THEN [workers[w] EXCEPT !.ui = "handled"]
    ELSE Collected(workers[w].terminal)

\* the Vectorize button is clicked (clicked is emitted only by an enabled button)
convert_image ==
    /\ UserIdle
    /\ convert_button
    /\ Len(workers) < MaxConversions
    /\ IF ~truthy_path(current_image_path)
       THEN UNCHANGED vars
       ELSE /\ convert_button' = FALSE
            /\ progress_bar' = [visible |-> TRUE, value |-> 0]
            /\ workers' = Append(release_replaced(workers),
                    ConversionWorker(current_image_path[1],
                                     get_parameters(param_controls)))
            /\ conversion_worker' = Some(Len(workers) + 1)
            /\ UNCHANGED <<current_image_path, current_svg_content, save_button,
                           image_widget, svg_widget, param_controls, event_queue,
                           modal, files, save_log>>

\* a signal in flight: sig is the signal's name; its argument is value for
\* progress (an int) and text for finished and error (a str). finished is the
\* class's own finished(str); QThread's finished() is connected to no slot
Signal(w, sig, value, text) == [worker |-> w, sig |-> sig, value |-> value, text |-> text]

\* self.<sig>.emit(...) in worker w, which moves on to pc
emit(w, sig, value, text, pc) ==
    /\ event_queue' = Append(event_queue, Signal(w, sig, value, text))
    /\ workers' = [workers EXCEPT
                      ![w].signals = Append(@, Signal(w, sig, value, text)),
                      ![w].pc = pc]

\* run, line 53
run_progress10(w) ==
    /\ workers[w].pc = "progress10"
    /\ emit(w, "progress", 10, <<>>, "read")
    /\ UNCHANGED <<window_vars, param_controls, modal, files, save_log>>

\* a run that reports progress 30 before it opens the file
run_read_progress_first(w, readable) ==
    /\ workers[w].pc = "read"
    /\ event_queue' = Append(event_queue, Signal(w, "progress", 30, <<>>))
    /\ IF readable
       THEN workers' = [workers EXCEPT
                  ![w].image_bytes = Some(<<"bytes of", workers[w].image_path[1]>>),
                  ![w].signals = Append(@, Signal(w, "progress", 30, <<>>)),
                  ![w].pc = "format"]
       ELSE workers' = [workers EXCEPT
                  ![w].signals = Append(@, Signal(w, "progress", 30, <<>>)),
                  ![w].exc = Some("OSError"), ![w].pc = "except"]
    /\ UNCHANGED <<window_vars, param_controls, modal, files, save_log>>

\* run, lines 56-59: open and read the file; readable: neither raises
run_read(w, readable) ==
    /\ workers[w].pc = "read"
    /\ IF readable
       THEN /\ event_queue' = Append(event_queue, Signal(w, "progress", 30, <<>>))
            /\ workers' = [workers EXCEPT
                  ![w].image_bytes = Some(<<"bytes of", workers[w].image_path[1]>>),
                  ![w].signals = Append(@, Signal(w, "progress", 30, <<>>)),
                  ![w].pc = "format"]
       ELSE /\ workers' = [workers EXCEPT ![w].exc = Some("OSError"), ![w].pc = "except"]
            /\ UNCHANGED event_queue
    /\ UNCHANGED <<window_vars, param_controls, modal, files, save_log>>

\* run, lines 62-73
run_format(w) ==
    /\ workers[w].pc = "format"
    /\ event_queue' = Append(event_queue, Signal(w, "progress", 50, <<>>))
    /\ workers' = [workers EXCEPT
          ![w].img_format = Some(detect_format(workers[w].image_path[1])),
          ![w].signals = Append(@, Signal(w, "progress", 50, <<>>)),
          ![w].pc = "convert"]
    /\ UNCHANGED <<window_vars, param_controls, modal, files, save_log>>

\* a library call that reads the panel when it is made instead of the worker's
\* own params
run_convert_live(w, raises) ==
    /\ workers[w].pc = "convert"
    /\ LET call == Some([image_bytes |-> workers[w].image_bytes[1],
                         img_format  |-> workers[w].img_format[1],
                         params      |-> get_parameters(param_controls)])
           result == Some(convert_raw_image_to_svg(workers[w].image_bytes[1],
                              workers[w].img_format[1], get_parameters(param_controls)))
       IN  IF ~raises
           THEN /\ event_queue' = Append(event_queue, Signal(w, "progress", 100, <<>>))
                /\ workers' = [workers EXCEPT
                      ![w].lib_call = call,
                      ![w].svg_content = result,
                      ![w].signals = Append(@, Signal(w, "progress", 100, <<>>)),
                      ![w].pc = "finished"]
           ELSE /\ workers' = [workers EXCEPT
                      ![w].lib_call = call,
                      ![w].exc = Some("vtracer error"),
                      ![w].pc = "except"]
                /\ UNCHANGED event_queue
    /\ UNCHANGED <<window_vars, param_controls, modal, files, save_log>>

\* run, lines 76-80: the library call; raises: it raises instead of returning
run_convert(w, raises) ==
    /\ workers[w].pc = "convert"
    /\ LET call == Some([image_bytes |-> workers[w].image_bytes[1],
                         img_format  |-> workers[w].img_format[1],
                         params      |-> workers[w].params[1]])
           result == Some(convert_raw_image_to_svg(workers[w].image_bytes[1],
                              workers[w].img_format[1], workers[w].params[1]))
       IN  IF ~raises
           THEN /\ event_queue' = Append(event_queue, Signal(w, "progress", 100, <<>>))
                /\ workers' = [workers EXCEPT
                      ![w].lib_call = call,
                      ![w].svg_content = result,
                      ![w].signals = Append(@, Signal(w, "progress", 100, <<>>)),
                      ![w].pc = "finished"]
           ELSE /\ workers' = [workers EXCEPT
                      ![w].lib_call = call,
                      ![w].exc = Some("vtracer error"),
                      ![w].pc = "except"]
                /\ UNCHANGED event_queue
    /\ UNCHANGED <<window_vars, param_controls, modal, files, save_log>>

\* run, line 81
run_finished(w) ==
    /\ workers[w].pc = "finished"
    /\ emit(w, "finished", 0, workers[w].svg_content[1], "done")
    /\ UNCHANGED <<window_vars, param_controls, modal, files, save_log>>

\* an except clause that swallows the exception
run_except_silent(w) ==
    /\ workers[w].pc = "except"
    /\ workers' = [workers EXCEPT ![w].pc = "done"]
    /\ UNCHANGED <<window_vars, param_controls, event_queue, modal, files, save_log>>

\* run, lines 83-84: the except clause; the message is the f-string's prefix
\* (written here in ASCII) followed by str(e)
run_except(w) ==
    /\ workers[w].pc = "except"
    /\ emit(w, "error", 0, <<"conversion error: ", workers[w].exc[1]>>, "done")
    /\ UNCHANGED <<window_vars, param_controls, modal, files, save_log>>

(***************************************************************************)
(* The UI thread takes a worker's signal from its event queue.             *)
(***************************************************************************)
\* str.encode("utf-8")
encode_utf8(text) == <<"utf-8", text>>

\* progress -> progress_bar.setValue
progress_setValue(e) ==
    /\ progress_bar' = [progress_bar EXCEPT !.value = e.value]
    /\ UNCHANGED <<current_image_path, current_svg_content, conversion_worker,
                   convert_button, save_button, image_widget, svg_widget,
                   param_controls, workers, modal, files, save_log>>

\* on_conversion_finished, lines 481-497, up to the "Complete" box; encode and
\* QSvgWidget.load do not raise on the library's text
on_conversion_finished(w, svg_content) ==
    /\ current_svg_content' = Some(svg_content)
    /\ svg_widget' = Some(encode_utf8(svg_content))
    /\ convert_button' = TRUE
    /\ save_button' = TRUE
    /\ progress_bar' = [progress_bar EXCEPT !.visible = FALSE]
    /\ modal' = Append(modal, Dialog("complete", w, <<>>))
    /\ workers' = [workers EXCEPT ![w].ui = "handling", ![w].terminal = "finished"]
    /\ UNCHANGED <<current_image_path, conversion_worker, image_widget,
                   param_controls, files, save_log>>

\* on_conversion_error, line 501: the error box opens
on_conversion_error(w, error_message) ==
    /\ modal' = Append(modal, Dialog("error", w, error_message))
    /\ workers' = [workers EXCEPT ![w].ui = "handling", ![w].terminal = "error"]
    /\ UNCHANGED <<window_vars, param_controls, files, save_log>>

\* the event loop (the main one or a dialog's) delivers the oldest queued signal
deliver_signal ==
    /\ event_queue # <<>>
    /\ event_queue' = Tail(event_queue)
    /\ LET e == Head(event_queue)
       IN  CASE e.sig = "progress" -> progress_setValue(e)
             [] e.sig = "finished" -> on_conversion_finished(e.worker, e.text)
             [] e.sig = "error"    -> on_conversion_error(e.worker, e.text)

\* an error handler that hides the progress bar and forgets the button
on_conversion_error_restore_no_button(w) ==
    /\ progress_bar' = [progress_bar EXCEPT !.visible = FALSE]
    /\ workers' = [workers EXCEPT ![w] = handled_worker(w)]
    /\ UNCHANGED <<current_image_path, current_svg_content, conversion_worker,
                   convert_button, save_button, image_widget, svg_widget>>

\* on_conversion_error, lines 504-505, once the error box is closed
on_conversion_error_restore(w) ==
    /\ convert_button' = TRUE
    /\ progress_bar' = [progress_bar EXCEPT !.visible = FALSE]
    /\ workers' = [workers EXCEPT ![w] = handled_worker(w)]
    /\ UNCHANGED <<current_image_path, current_svg_content, conversion_worker,
                   save_button, image_widget, svg_widget>>

\* the user closes the topmost message box; the handler that opened it goes on
close_message_box ==
    /\ modal # <<>>
    /\ TopDialog.kind \in {"complete", "error", "saved", "save_failed"}
    /\ modal' = PopDialog
    /\ CASE TopDialog.kind = "error" -> on_conversion_error_restore(TopDialog.worker)
         [] TopDialog.kind = "complete" ->
              /\ workers' = [workers EXCEPT
                                ![TopDialog.worker] = handled_worker(TopDialog.worker)]
              /\ UNCHANGED window_vars
         [] OTHER -> UNCHANGED <<window_vars, workers>>
    /\ UNCHANGED <<param_controls, event_queue, files, save_log>>

(***************************************************************************)
(* VTracerGUI.save_svg.                                                    *)
(***************************************************************************)
\* save_svg as it would be without the test on line 509
save_svg_unguarded ==
    /\ UserIdle
    /\ save_log.returned_early + save_log.dialogs < MaxSaves
    /\ modal' = Append(modal, Dialog("save_file", 0,
                    IF truthy_path(current_image_path)
                    THEN Path[current_image_path[1]].stem \o <<".", "s", "v", "g">>
                    ELSE <<>>))
    /\ save_log' = [save_log EXCEPT !.dialogs = @ + 1]
    /\ UNCHANGED <<window_vars, param_controls, workers, event_queue, files>>

\* save_svg, lines 509-519: the slot of save_button.clicked, up to the save dialog.
\* It is taken as callable whatever the button's state: the test on line 509 is
\* what answers a call made before any result exists.
save_svg ==
    /\ UserIdle
    /\ save_log.returned_early + save_log.dialogs < MaxSaves
    /\ IF ~truthy_text(current_svg_content)
       THEN /\ save_log' = [save_log EXCEPT !.returned_early = @ + 1]
            /\ UNCHANGED modal
       ELSE /\ modal' = Append(modal, Dialog("save_file", 0,
                    IF truthy_path(current_image_path)
                    THEN Path[current_image_path[1]].stem \o <<".", "s", "v", "g">>
                    ELSE <<>>))
            /\ save_log' = [save_log EXCEPT !.dialogs = @ + 1]
    /\ UNCHANGED <<window_vars, param_controls, workers, event_queue, files>>

\* save_svg, lines 521-529: getSaveFileName returns file_path ("" when cancelled);
\* writable: open and write do not raise
save_svg_write(file_path, writable) ==
    /\ modal # <<>>
    /\ TopDialog.kind = "save_file"
    /\ IF file_path = <<>>
       THEN /\ modal' = PopDialog
            /\ UNCHANGED <<files, save_log>>
       ELSE IF writable
       THEN /\ files' = [files EXCEPT ![file_path] = Some(current_svg_content[1])]
            /\ save_log' = [save_log EXCEPT !.writes = @ + 1]
            /\ modal' = Append(PopDialog, Dialog("saved", 0, file_path))
       ELSE /\ modal' = Append(PopDialog, Dialog("save_failed", 0, file_path))
            /\ UNCHANGED <<files, save_log>>
    /\ UNCHANGED <<window_vars, param_controls, workers, event_queue>>

(***************************************************************************)
(* The application: every user input, worker step and event-loop step.     *)
(***************************************************************************)
Workers == 1..Len(workers)

run(w) ==
    /\ w \in Workers
    /\ \/ run_progress10(w)
       \/ \E readable \in BOOLEAN : run_read(w, readable)
       \/ run_format(w)
       \/ \E raises \in BOOLEAN : run_convert(w, raises)
       \/ run_finished(w)
       \/ run_except(w)

Next ==
    \/ \E urls \in {<<>>} \cup {<<f>> : f \in DropFiles} : dropEvent(urls)
    \/ select_file
    \/ \E f \in {<<>>} \cup DropFiles : select_file_return(f)
    \/ convert_image
    \/ \E w \in Workers : run(w)
    \/ deliver_signal
    \/ close_message_box
    \/ save_svg
    \/ \E f \in {<<>>} \cup SaveFiles, writable \in BOOLEAN : save_svg_write(f, writable)

Spec == Init /\ [][Next]_vars

(***************************************************************************)
(* Scheduling: every worker thread keeps running until run returns (its    *)
(* blocking calls return), the UI thread's event loop keeps delivering     *)
(* queued signals, and the user answers every dialog.                      *)
(***************************************************************************)
Fairness ==
    /\ \A w \in 1..MaxConversions : WF_vars(run(w))
    /\ WF_vars(deliver_signal)
    /\ WF_vars(close_message_box)
    /\ WF_vars(\E f \in {<<>>} \cup DropFiles : select_file_return(f))
    /\ WF_vars(\E f \in {<<>>} \cup SaveFiles, writable \in BOOLEAN :
                  save_svg_write(f, writable))

FairSpec == Spec /\ Fairness

(***************************************************************************)
(* The application with the parameter panel in use while conversions run.  *)
(***************************************************************************)
\* the one change of the panel tried while conversions go on: the segment
\* length slider is moved off its default and back
parameters_changed_in_flight ==
    \E v \in {37, slider_default.length_threshold} :
        slider_valueChanged("length_threshold", v)

NextInFlight ==
    \/ Next
    \/ parameters_changed_in_flight

SpecInFlight == Init /\ [][NextInFlight]_vars

(***************************************************************************)
(* The parameter panel: the user sets the controls (every control, every   *)
(* value, also a request past the end of a slider), loads an image and     *)
(* starts conversions, each of which takes a snapshot.                     *)
(***************************************************************************)
\* a control of the panel is changed; at most MaxChangedControls controls are
\* away from the values init_ui gave them
parameters_changed ==
    /\ \/ \E name \in SliderNames :
             \E v \in (slider_range[name][1] - 1)..(slider_range[name][2] + 1) :
                slider_valueChanged(name, v)
       \/ \E name \in ComboNames :
             \E text \in combo_items[name] : combo_currentTextChanged(name, text)
    /\ Cardinality(changed_controls(param_controls')) <= MaxChangedControls

NextPanel ==
    \/ workers = <<>> /\ parameters_changed
    \/ \E urls \in {<<f>> : f \in DropFiles} : dropEvent(urls)
    \/ convert_image

SpecPanel == Init /\ [][NextPanel]_vars

(***************************************************************************)
(* One ConversionWorker on any path: the window right after load_image(p)  *)
(* and convert_image(), then the worker's run and the UI's handling of its *)
(* signals.                                                                *)
(***************************************************************************)
InitWorker ==
    \E p \in WorkerPaths \ {<<>>} :
        /\ current_image_path = Some(p)
        /\ current_svg_content = None
        /\ conversion_worker = Some(1)
        /\ convert_button = FALSE
        /\ save_button = FALSE
        /\ progress_bar = [visible |-> TRUE, value |-> 0]
        /\ image_widget = [pixmap |-> None,
                           toolTip |-> Some(<<"Selected image: ", Path[p].name>>)]
        /\ svg_widget = None
        /\ param_controls = panel_init
        /\ workers = <<[ConversionWorker(p, get_parameters(panel_init))
                          EXCEPT !.before = Some([current_svg_content |-> None,
                                                  save_button |-> FALSE])]>>
        /\ event_queue = <<>>
        /\ modal = <<>>
        /\ files = [f \in SaveFiles |-> None]
        /\ save_log = [returned_early |-> 0, dialogs |-> 0, writes |-> 0]

NextWorker ==
    \/ run(1)
    \/ deliver_signal
    \/ close_message_box

SpecWorker == InitWorker /\ [][NextWorker]_vars

(***************************************************************************)
(* Conversions whose inputs change under them: while workers run the user  *)
(* drops one image or another and moves the segment length slider.         *)
(***************************************************************************)
\* the images dropped while conversions go on
CaptureFiles == {<<"d", "/", "b", ".", "J", "P", "G">>, <<"a", ".", "p", "n", "g">>}

NextCapture ==
    \/ \E f \in CaptureFiles : dropEvent(<<f>>)
    \/ parameters_changed_in_flight
    \/ convert_image
    \/ \E w \in Workers : run(w)
    \/ deliver_signal
    \/ close_message_box

SpecCapture == Init /\ [][NextCapture]_vars

(***************************************************************************)
(* Properties.                                                             *)
(***************************************************************************)
\* the workers whose thread was started and whose terminal signal the UI has
\* not begun to handle
InFlight == {w \in Workers : workers[w].ui = "none"}

\* the positions of worker w's finished and error emissions
TerminalEmitted(w) ==
    {i \in DOMAIN workers[w].signals : workers[w].signals[i].sig \in {"finished", "error"}}

\* the terminal signals of worker w waiting in the UI thread's event queue
TerminalQueued(w) ==
    {i \in DOMAIN event_queue :
        event_queue[i].worker = w /\ event_queue[i].sig \in {"finished", "error"}}

\* the names of the signals worker w emitted, and the progress values among them
EmittedNames(w) == {workers[w].signals[i].sig : i \in DOMAIN workers[w].signals}

EmittedProgress(w) ==
    {workers[w].signals[i].value :
        i \in {j \in DOMAIN workers[w].signals : workers[w].signals[j].sig = "progress"}}

\* C1: at any moment at most one conversion task is in flight, that is started
\* with its terminal signal not yet handled, whatever the user does in between
\* (loading another image included).
C1_AtMostOneInFlight == Cardinality(InFlight) <= 1

\* C2: from the click that starts a conversion until its terminal signal is
\* handled the Vectorize button is disabled, so no second conversion can be
\* started meanwhile.
C2_ButtonDisabledInFlight == \A w \in InFlight : ~convert_button

\* C3: a run of the worker emits exactly one terminal signal, finished or error:
\* never more than one, one once run has returned, and run always goes on until
\* it has returned; the UI thread is handed that signal once.
C3_ExactlyOneTerminal ==
    \A w \in Workers :
        /\ Cardinality(TerminalEmitted(w)) <= 1
        /\ workers[w].pc = "done" <=> Cardinality(TerminalEmitted(w)) = 1
        /\ workers[w].pc # "done" => ENABLED run(w)
        /\ Cardinality(TerminalQueued(w)) + (IF workers[w].ui = "none" THEN 0 ELSE 1)
              = Cardinality(TerminalEmitted(w))

C3_Witness ==
    \E w \in Workers :
        /\ workers[w].pc = "done"
        /\ workers[w].lib_call # None
        /\ "error" \in EmittedNames(w)
        /\ workers[w].ui = "handled"

\* C4: when the handling of a terminal signal, finished or error, is over the
\* Vectorize button is enabled and the progress bar hidden, and no conversion
\* was started by the handling; a conversion is started only by a click on the
\* enabled button; and every started conversion gets there.
C4_UsableAfterTerminal ==
    /\ [][/\ \A w \in Workers :
                (workers[w].ui # "handled" /\ workers'[w].ui = "handled")
                   => (convert_button' /\ ~progress_bar'.visible
                       /\ Len(workers') = Len(workers))
          /\ Len(workers') # Len(workers) => (UserIdle /\ convert_button)]_vars
    /\ \A w \in 1..MaxConversions :
          (Len(workers) >= w)
             ~> (Len(workers) >= w /\ workers[w].ui = "handled" /\ convert_button)

C4_Witness ==
    \E w \in Workers :
        /\ workers[w].ui = "handled"
        /\ workers[w].terminal = "error"
        /\ convert_button
        /\ ~progress_bar.visible
        /\ modal = <<>>

\* C5: the terminal signal tells the outcome. If reading the file failed, error
\* is emitted, the library is not called and no progress above 10 is reported;
\* if the library raised, error is emitted and progress 100 is not reported;
\* finished is emitted only when the read and the library call both succeeded.
C5_TerminalMatchesOutcome ==
    \A w \in Workers :
        /\ workers[w].exc = Some("OSError") =>
              /\ "finished" \notin EmittedNames(w)
              /\ workers[w].lib_call = None
              /\ \A v \in EmittedProgress(w) : v <= 10
        /\ workers[w].exc = Some("vtracer error") =>
              /\ "finished" \notin EmittedNames(w)
              /\ 100 \notin EmittedProgress(w)
        /\ (workers[w].exc # None /\ workers[w].pc = "done") => "error" \in EmittedNames(w)
        /\ "error" \in EmittedNames(w) => workers[w].exc # None
        /\ "finished" \in EmittedNames(w) =>
              /\ workers[w].image_bytes # None
              /\ workers[w].lib_call # None
              /\ workers[w].svg_content # None
              /\ workers[w].exc = None

C5_Witness ==
    \E w \in Workers :
        /\ workers[w].exc = Some("OSError")
        /\ workers[w].pc = "done"
        /\ workers[w].terminal = "error"

\* C6: as long as no finished signal has been handled, save_svg does nothing: no
\* save dialog was opened, no file written, and the save button is disabled,
\* however many images were loaded and conversions failed.
C6_SaveNeedsResult ==
    (\A w \in Workers : workers[w].terminal # "finished") =>
        /\ save_log.dialogs = 0
        /\ save_log.writes = 0
        /\ \A f \in SaveFiles : files[f] = None
        /\ \A i \in DOMAIN modal : modal[i].kind \notin {"save_file", "saved", "save_failed"}
        /\ ~save_button

C6_Witness ==
    /\ \A w \in Workers : workers[w].terminal # "finished"
    /\ \E w \in Workers : workers[w].terminal = "error"
    /\ current_image_path # None
    /\ save_log.returned_early > 0

\* the tag the claim's table gives an extension
C7_Tag(ext) ==
    CASE ext \in {<<".", "j", "p", "g">>, <<".", "j", "p", "e", "g">>} -> "jpg"
      [] ext = <<".", "p", "n", "g">> -> "png"
      [] ext = <<".", "b", "m", "p">> -> "bmp"
      [] ext = <<".", "g", "i", "f">> -> "gif"
      [] ext = <<".", "t", "i", "f", "f">> -> "tiff"
      [] OTHER -> "jpg"

\* C7: the format tag is the table's entry for the path's extension compared
\* without regard to case (.jpg and .jpeg give jpg, .png png, .bmp bmp, .gif gif,
\* .tiff tiff), jpg for every other extension and for none, and it is the tag
\* the library is called with.
C7_FormatTag ==
    \A w \in Workers :
        /\ workers[w].img_format # None =>
              workers[w].img_format[1]
                 = C7_Tag(str_lower(Path[workers[w].image_path[1]].suffix))
        /\ workers[w].lib_call # None =>
              workers[w].lib_call[1].img_format
                 = C7_Tag(str_lower(Path[workers[w].image_path[1]].suffix))

C7_Witness ==
    \E w \in Workers :
        /\ workers[w].lib_call # None
        /\ workers[w].lib_call[1].img_format = "tiff"
        /\ Path[workers[w].image_path[1]].suffix = <<".", "T", "I", "F", "F">>

\* C8: whatever the position of the segment length slider, the length_threshold
\* of the snapshot is a multiple of 0.5 between 3.5 and 10.0.
C8_HalfSteps ==
    LET t == get_parameters(param_controls).length_threshold
    IN  /\ (2 * t.num) % t.den = 0
        /\ 35 * t.den <= 10 * t.num
        /\ 10 * t.num <= 100 * t.den

\* the bounds and enumerations the claim gives a snapshot
C9_InBounds(params) ==
    /\ params.colormode \in {"color", "binary"}
    /\ params.hierarchical \in {"stacked", "cutout"}
    /\ params.mode \in {"spline", "polygon", "none"}
    /\ params.filter_speckle \in 0..128
    /\ params.color_precision \in 1..8
    /\ params.layer_difference \in 0..128
    /\ params.corner_threshold \in 0..180
    /\ params.splice_threshold \in 0..180
    /\ 35 * params.length_threshold.den <= 10 * params.length_threshold.num
    /\ 10 * params.length_threshold.num <= 100 * params.length_threshold.den
    /\ params.max_iterations = 10

\* C9: every field of a snapshot is inside its control's bounds or enumeration
\* (max_iterations is 10), for the panel in every state the user can bring it to
\* and for every snapshot a conversion took; taking the snapshot changes no
\* control.
C9_SnapshotInBounds ==
    /\ [](/\ C9_InBounds(get_parameters(param_controls))
          /\ \A w \in Workers :
                workers[w].params # None => C9_InBounds(workers[w].params[1]))
    /\ [][Len(workers') > Len(workers) => param_controls' = param_controls]_vars

C9_Witness ==
    /\ workers # <<>>
    /\ param_controls.slider.length_threshold = 100
    /\ workers[1].params[1].length_threshold = [num |-> 100, den |-> 10]

\* a step of save_svg: the slot up to its dialog, the dialog's return and the
\* write, or the closing of the message box that reports the result
SaveStep ==
    \/ save_svg
    \/ \E f \in {<<>>} \cup SaveFiles, writable \in BOOLEAN : save_svg_write(f, writable)
    \/ close_message_box /\ TopDialog.kind \in {"saved", "save_failed"}

\* C10: save_svg leaves current_svg_content, current_image_path and both buttons
\* as they are, and when the handling of a conversion error is over
\* current_svg_content and the save button are as they were when that conversion
\* was started.
C10_ResultKept ==
    [][/\ SaveStep => UNCHANGED <<current_svg_content, current_image_path,
                                   convert_button, save_button>>
       /\ \A w \in Workers :
             (workers[w].terminal = "error" /\ workers[w].ui = "handling"
                 /\ workers'[w].ui = "handled")
                => /\ current_svg_content' = workers[w].before[1].current_svg_content
                   /\ save_button' = workers[w].before[1].save_button]_vars

\* C11: a conversion works on the inputs captured at its start. The worker
\* convert_image creates is a new one, holding current_image_path and
\* get_parameters() of that moment, and no earlier worker is touched by it; no
\* later step (a control moved, an image loaded) changes a live worker's
\* image_path or params; and the library is called with the bytes of that path
\* and with those params.
C11_CapturedInputs ==
    [][/\ Len(workers') # Len(workers) =>
             /\ Len(workers') = Len(workers) + 1
             /\ workers'[Len(workers')].image_path = current_image_path
             /\ workers'[Len(workers')].params = Some(get_parameters(param_controls))
             /\ workers'[Len(workers')].pc = "progress10"
             /\ \A w \in Workers :
                   workers'[w] = workers[w] \/ workers'[w].pc = "collected"
       /\ \A w \in Workers :
             /\ workers'[w].pc # "collected" =>
                   /\ workers'[w].image_path = workers[w].image_path
                   /\ workers'[w].params = workers[w].params
             /\ (workers[w].lib_call = None /\ workers'[w].lib_call # None) =>
                   /\ workers'[w].lib_call[1].params = workers[w].params[1]
                   /\ workers'[w].lib_call[1].image_bytes
                         = <<"bytes of", workers[w].image_path[1]>>]_vars

C11_Witness ==
    \E w \in Workers :
        /\ workers[w].lib_call # None
        /\ workers[w].lib_call[1].params # get_parameters(param_controls)
        /\ workers[w].image_path # current_image_path
        /\ workers[w].lib_call[1].params = workers[w].params[1]

====
